---- MODULE Spec2Model ----
(***************************************************************************)
(* Model of src/networking/WebSocket/WebSocket.ts: the gateway server that *)
(* admits socket connections, identifies them into Client sessions kept in *)
(* the process-wide `clients` registry, routes voice updates to the        *)
(* session's adapters and tears sessions down on channel close.            *)
(*                                                                         *)
(* One step of the model is one callback of the event loop, run to         *)
(* completion: the "connection" event (handleConnection), a "message"      *)
(* event (handleWSMessage), a "close" event (the close handler), a call of *)
(* close() on the server, or a step of the environment (the peer closing   *)
(* its socket, the audio subsystem adding a subscription to a session).    *)
(***************************************************************************)
EXTENDS Integers, Sequences, FiniteSets, TLC

\* ---------------------------------------------------------------- bounds
MaxChan == 3
MaxEvents == 5

Chans == 1..MaxChan
Identities == {"a"}
NoID == ""
Guilds == {"g1", "g2"}
NoGuild == ""
Passwords == {"", "pw"}
Auths == {"", "pw", "bad"}
\* user_id values of a voice state update: the identities and a foreign user
Users == Identities \cup {"z"}

\* WSCloseCodes used by WebSocket.ts, plus the code of a close the peer sends
NOT_ALLOWED == "NOT_ALLOWED"
NO_CLIENT_ID == "NO_CLIENT_ID"
NO_AUTH == "NO_AUTH"
SESSION_EXPIRED == "SESSION_EXPIRED"
DECODE_ERROR == "DECODE_ERROR"
ALREADY_CONNECTED == "ALREADY_CONNECTED"
NOT_IDENTIFIED == "NOT_IDENTIFIED"
SERVER_CLOSED == "SERVER_CLOSED"
PEER == "PEER"
NoCode == ""

VARIABLES
    chan,       \* per channel: readyState, client-id header, tag, close code, frames sent
    clients,    \* the registry: identity -> index of its Client in heap, 0 when absent
    heap,       \* every Client object constructed so far
    password,   \* constructor argument
    listening,  \* the ws.Server still accepts connections
    event,      \* the callback that ran last
    effects,    \* the calls that callback made, in order
    remaining   \* how many more events the environment injects

vars == <<chan, clients, heap, password, listening, event, effects, remaining>>

\* ---------------------------------------------------------------- helpers
Fx(op, ch, arg) == [op |-> op, ch |-> ch, arg |-> arg]
Ev(kind, ch) == [kind |-> kind, ch |-> ch]

\* id is the __client_id__ tag (and the clientID the close listener captured),
\* set when the connection is admitted
NewChan == [state |-> "NONE", id |-> NoID, tagged |-> FALSE, code |-> NoCode, sent |-> <<>>]

\* ws.close(code, reason): an OPEN socket starts closing with this code; on a
\* socket that is already CLOSING or CLOSED the call changes nothing.
wsClose(ch, c, code) ==
    IF ch[c].state = "OPEN"
    THEN [ch EXCEPT ![c].state = "CLOSING", ![c].code = code]
    ELSE ch

\* send(ws, data): ws.send with a noop callback; the frame goes out only on an
\* OPEN socket, otherwise the error is handed to the callback and dropped.
send(ch, c, msg) ==
    IF ch[c].state = "OPEN"
    THEN [ch EXCEPT ![c].sent = Append(@, msg)]
    ELSE ch

getID(c) == chan[c].id

Count(s, x) == Cardinality({i \in 1..Len(s) : s[i] = x})

HELLO == "HELLO"
READY == "READY"

Session(c) == [socket |-> c, subs |-> <<>>, killed |-> [g \in Guilds |-> 0]]

\* message payloads as Util.parse yields them: kind "bad" is a payload that
\* does not parse, "identify" is op 10, "vstate" / "vserver" are the two routed
\* dispatch types, "other" is any other t.
Msg(kind, guild, sess, user) == [kind |-> kind, guild |-> guild, sess |-> sess, user |-> user]
Msgs ==
    {Msg(k, NoGuild, FALSE, NoID) : k \in {"bad", "identify", "other"}}
    \cup {Msg("vserver", g, FALSE, NoID) : g \in Guilds}
    \cup {Msg("vstate", g, s, u) : g \in Guilds \cup {NoGuild}, s \in BOOLEAN, u \in Users}

\* the next socket the server accepts
nextChan == IF \E c \in Chans : chan[c].state = "NONE"
            THEN CHOOSE c \in Chans : chan[c].state = "NONE" /\ \A d \in 1..(c-1) : chan[d].state # "NONE"
            ELSE 0

\* ---------------------------------------------------------------- Init
\* the server after construction, with n events of the environment to come
Start(n) ==
    /\ chan = [c \in Chans |-> NewChan]
    /\ clients = [x \in Identities |-> 0]
    /\ heap = <<>>
    /\ password \in Passwords
    /\ listening = TRUE
    /\ event = Ev("init", 0)
    /\ effects = <<>>
    /\ remaining = n

Init == Start(MaxEvents)

\* a run one event longer, for the scenarios that need three identifying channels
InitDeep == Start(MaxEvents + 1)

\* a run one event shorter, for the liveness check
InitFair == Start(MaxEvents - 1)

\* the environment injects one more connection, message, peer close, subscription
\* or shutdown; the close events these cause are not counted
inject == remaining > 0 /\ remaining' = remaining - 1

\* ---------------------------------------------------------------- handleConnection
\* variant: the credential is checked before the identity
Admission_authFirst(id, blocked, auth) ==
    IF blocked THEN NOT_ALLOWED
    ELSE IF password # "" /\ auth # password THEN NO_AUTH
    ELSE IF id = NoID THEN NO_CLIENT_ID
    ELSE NoCode

\* variant: the credential is compared even when no password is configured
Admission_alwaysAuth(id, blocked, auth) ==
    IF blocked THEN NOT_ALLOWED
    ELSE IF id = NoID THEN NO_CLIENT_ID
    ELSE IF auth # password THEN NO_AUTH
    ELSE NoCode

\* variant: the identity is checked before the blocked address
Admission_idFirst(id, blocked, auth) ==
    IF id = NoID THEN NO_CLIENT_ID
    ELSE IF blocked THEN NOT_ALLOWED
    ELSE IF password # "" /\ auth # password THEN NO_AUTH
    ELSE NoCode

\* the admission checks, in the order the code makes them; NoCode when all pass
Admission(id, blocked, auth) ==
    IF blocked THEN NOT_ALLOWED
    ELSE IF id = NoID THEN NO_CLIENT_ID
    ELSE IF password # "" /\ auth # password THEN NO_AUTH
    ELSE NoCode

\* variant: no takeover, the registered socket is never looked up
previousSocket_none(id) == 0

\* the socket of the Client registered for id when it is not CLOSED, else 0
previousSocket(id) ==
    IF clients[id] # 0 /\ chan[heap[clients[id]].socket].state # "CLOSED"
    THEN heap[clients[id]].socket
    ELSE 0

\* variant: HELLO is sent as soon as the socket is accepted, before the checks
handleConnection_helloFirst(c, id, blocked, auth) ==
    /\ listening
    /\ inject
    /\ c = nextChan
    /\ event' = Ev("connection", c)
    /\ UNCHANGED <<clients, heap, password, listening>>
    /\ LET code == Admission(id, blocked, auth)
           opened == send([chan EXCEPT ![c].state = "OPEN"], c, HELLO)
       IN IF code # NoCode
          THEN /\ chan' = wsClose(opened, c, code)
               /\ effects' = <<Fx("send", c, HELLO), Fx("close", c, code)>>
          ELSE LET prev == previousSocket(id)
                   expired == IF prev # 0 THEN wsClose(opened, prev, SESSION_EXPIRED) ELSE opened
               IN /\ chan' = [expired EXCEPT ![c].tagged = TRUE, ![c].id = id]
                  /\ effects' = <<Fx("send", c, HELLO)>>
                                \o (IF prev # 0 THEN <<Fx("close", prev, SESSION_EXPIRED)>> ELSE <<>>)

handleConnection(c, id, blocked, auth) ==
    /\ listening
    /\ inject
    /\ c = nextChan
    /\ event' = Ev("connection", c)
    /\ UNCHANGED <<clients, heap, password, listening>>
    /\ LET code == Admission(id, blocked, auth)
           opened == [chan EXCEPT ![c].state = "OPEN"]
       IN IF code # NoCode
          THEN /\ chan' = wsClose(opened, c, code)
               /\ effects' = <<Fx("close", c, code)>>
          ELSE LET prev == previousSocket(id)
                   expired == IF prev # 0 THEN wsClose(opened, prev, SESSION_EXPIRED) ELSE opened
                   tagged == [expired EXCEPT ![c].tagged = TRUE, ![c].id = id]
               IN /\ chan' = send(tagged, c, HELLO)
                  /\ effects' = (IF prev # 0 THEN <<Fx("close", prev, SESSION_EXPIRED)>> ELSE <<>>)
                                \o <<Fx("send", c, HELLO)>>

\* ---------------------------------------------------------------- close handler
\* subscriptions.forEach((s) => subclient.kill(s.guildID)) inside one try:
\* kill is called on the subscriptions in order, through the first that throws.
RECURSIVE killRun(_, _)
killRun(subs, failing) ==
    IF subs = <<>> THEN <<>>
    ELSE IF Head(subs) \in failing THEN <<Head(subs)>>
    ELSE <<Head(subs)>> \o killRun(Tail(subs), failing)

\* Client.kill(guildID), as far as the gateway sees it: it is invoked
kill(h, sid, g) == [h EXCEPT ![sid].killed[g] = @ + 1]

RECURSIVE killAll(_, _, _)
killAll(h, sid, run) ==
    IF run = <<>> THEN h ELSE killAll(kill(h, sid, Head(run)), sid, Tail(run))

\* variant: the close handler without clients.delete(clientID)
unregister_skip(reg, id) == reg

\* clients.delete(clientID)
unregister(reg, id) == [reg EXCEPT ![id] = 0]

onClose(c, failing) ==
    /\ chan[c].tagged
    /\ UNCHANGED remaining
    /\ chan[c].state = "CLOSING"
    /\ chan' = [chan EXCEPT ![c].state = "CLOSED"]
    /\ event' = Ev("close", c)
    /\ UNCHANGED <<password, listening>>
    /\ LET clientID == chan[c].id
           sid == clients[clientID]
           run == IF sid # 0 THEN killRun(heap[sid].subs, failing) ELSE <<>>
       IN /\ heap' = killAll(heap, sid, run)
          /\ effects' = [i \in 1..Len(run) |-> Fx("kill", sid, run[i])]
          /\ clients' = unregister(clients, clientID)

\* a socket rejected at admission has no listeners: its close event runs no code
onCloseRejected(c) ==
    /\ ~chan[c].tagged
    /\ UNCHANGED remaining
    /\ chan[c].state = "CLOSING"
    /\ chan' = [chan EXCEPT ![c].state = "CLOSED"]
    /\ event' = Ev("close", c)
    /\ effects' = <<>>
    /\ UNCHANGED <<clients, heap, password, listening>>

\* ---------------------------------------------------------------- handleWSMessage
\* a message event reaches the listener while the socket is OPEN, and also
\* after the server has called close() on it, until the peer's close arrives
receiving(c) ==
    /\ chan[c].tagged
    /\ \/ chan[c].state = "OPEN"
       \/ chan[c].state = "CLOSING" /\ chan[c].code # PEER

\* variant: the voice state update is forwarded without the user_id comparison
route_noUserCheck(sid, m) ==
    IF m.kind = "vstate"
    THEN IF m.guild # NoGuild /\ m.sess /\ Count(heap[sid].subs, m.guild) > 0
         THEN <<Fx("onVoiceStateUpdate", sid, m.guild)>>
         ELSE <<>>
    ELSE IF m.kind = "vserver"
    THEN IF Count(heap[sid].subs, m.guild) > 0
         THEN <<Fx("onVoiceServerUpdate", sid, m.guild)>>
         ELSE <<>>
    ELSE <<>>

\* the adapter calls of the switch on message.t, for the Client at heap[sid]
route(sid, m) ==
    IF m.kind = "vstate"
    THEN IF m.guild # NoGuild /\ m.sess /\ m.user = getID(heap[sid].socket)
            /\ Count(heap[sid].subs, m.guild) > 0
         THEN <<Fx("onVoiceStateUpdate", sid, m.guild)>>
         ELSE <<>>
    ELSE IF m.kind = "vserver"
    THEN IF Count(heap[sid].subs, m.guild) > 0
         THEN <<Fx("onVoiceServerUpdate", sid, m.guild)>>
         ELSE <<>>
    ELSE <<>>

\* variant: the duplicate check looks for a Client of this very socket
alreadyRegistered_bySocket(c) ==
    clients[getID(c)] # 0 /\ heap[clients[getID(c)]].socket = c

\* the registry lookup that decides whether an identify is a duplicate
alreadyRegistered(c) == clients[getID(c)] # 0

\* the registry lookup that decides whether a dispatch comes from an identified client
lookupClient(c) == clients[getID(c)]

handleWSMessage(c, m) ==
    /\ receiving(c)
    /\ inject
    /\ event' = Ev("message", c)
    /\ UNCHANGED <<password, listening>>
    /\ IF m.kind = "bad"
       THEN /\ chan' = wsClose(chan, c, DECODE_ERROR)
            /\ effects' = <<Fx("close", c, DECODE_ERROR)>>
            /\ UNCHANGED <<clients, heap>>
       ELSE IF m.kind = "identify"
       THEN IF alreadyRegistered(c)
            THEN /\ chan' = wsClose(chan, c, ALREADY_CONNECTED)
                 /\ effects' = <<Fx("close", c, ALREADY_CONNECTED)>>
                 /\ UNCHANGED <<clients, heap>>
            ELSE /\ heap' = Append(heap, Session(c))
                 /\ clients' = [clients EXCEPT ![getID(c)] = Len(heap) + 1]
                 /\ chan' = send(chan, c, READY)
                 /\ effects' = <<Fx("send", c, READY)>>
       ELSE IF lookupClient(c) = 0
       THEN /\ chan' = wsClose(chan, c, NOT_IDENTIFIED)
            /\ effects' = <<Fx("close", c, NOT_IDENTIFIED)>>
            /\ UNCHANGED <<clients, heap>>
       ELSE /\ effects' = route(lookupClient(c), m)
            /\ UNCHANGED <<chan, clients, heap>>

\* a message on a socket rejected at admission: no listener was attached
ignoredMessage(c) ==
    /\ ~chan[c].tagged
    /\ inject
    /\ chan[c].state = "CLOSING"
    /\ event' = Ev("message", c)
    /\ effects' = <<>>
    /\ UNCHANGED <<chan, clients, heap, password, listening>>

\* ---------------------------------------------------------------- close()
\* the sockets close() closes: those of ws.clients whose readyState is OPEN
openSockets == {c \in Chans : chan[c].state = "OPEN"}

\* variant: close() without clients.clear()
cleared_kept == clients

\* what clients.clear() leaves in the registry
cleared == [x \in Identities |-> 0]

RECURSIVE closeEach(_, _, _)
closeEach(ch, c, targets) ==
    IF c > MaxChan THEN ch
    ELSE closeEach(IF c \in targets THEN wsClose(ch, c, SERVER_CLOSED) ELSE ch, c + 1, targets)

RECURSIVE closeFx(_, _)
closeFx(c, targets) ==
    IF c > MaxChan THEN <<>>
    ELSE (IF c \in targets THEN <<Fx("close", c, SERVER_CLOSED)>> ELSE <<>>) \o closeFx(c + 1, targets)

close ==
    /\ listening
    /\ inject
    /\ listening' = FALSE
    /\ chan' = closeEach(chan, 1, openSockets)
    /\ effects' = closeFx(1, openSockets)
    /\ clients' = cleared
    /\ event' = Ev("shutdown", 0)
    /\ UNCHANGED <<heap, password>>

\* ---------------------------------------------------------------- environment
\* the peer closes its end of an open socket
peerClose(c) ==
    /\ chan[c].state = "OPEN"
    /\ inject
    /\ chan' = [chan EXCEPT ![c].state = "CLOSING", ![c].code = PEER]
    /\ event' = Ev("peerclose", c)
    /\ effects' = <<>>
    /\ UNCHANGED <<clients, heap, password, listening>>

\* the audio subsystem adds a subscription for guild g to the Client registered for x
subscribe(x, g) ==
    /\ clients[x] # 0
    /\ inject
    /\ Count(heap[clients[x]].subs, g) = 0
    /\ heap' = [heap EXCEPT ![clients[x]].subs = Append(@, g)]
    /\ event' = Ev("subscribe", 0)
    /\ effects' = <<>>
    /\ UNCHANGED <<chan, clients, password, listening>>

\* ---------------------------------------------------------------- specification
\* the kill calls that can throw in the close handler of channel c
canFail(c) ==
    IF chan[c].tagged /\ clients[chan[c].id] # 0
    THEN {g \in Guilds : Count(heap[clients[chan[c].id]].subs, g) > 0}
    ELSE {}

\* the close event of an admitted channel, with any of its kill calls throwing
closeEvent(c) == \E failing \in SUBSET canFail(c) : onClose(c, failing)

Next ==
    \/ \E c \in Chans, id \in Identities \cup {NoID}, blocked \in BOOLEAN, auth \in Auths :
          handleConnection(c, id, blocked, auth)
    \/ \E c \in Chans, m \in Msgs : handleWSMessage(c, m)
    \/ \E c \in Chans : ignoredMessage(c)
    \/ \E c \in Chans : closeEvent(c)
    \/ \E c \in Chans : onCloseRejected(c)
    \/ close
    \/ \E c \in Chans : peerClose(c)
    \/ \E x \in Identities, g \in Guilds : subscribe(x, g)

Spec == Init /\ [][Next]_vars

DeepSpec == InitDeep /\ [][Next]_vars

\* the transport delivers the close event of every socket that is closing
FairSpec ==
    /\ InitFair /\ [][Next]_vars
    /\ \A c \in Chans : WF_vars(closeEvent(c)) /\ WF_vars(onCloseRejected(c))

TypeOK ==
    /\ \A c \in Chans : chan[c].state \in {"NONE", "OPEN", "CLOSING", "CLOSED"}
    /\ \A x \in Identities : clients[x] \in 0..Len(heap)
    /\ \A sid \in 1..Len(heap) : heap[sid].socket \in Chans
    /\ password \in Passwords
    /\ remaining \in 0..(MaxEvents + 1)

\* ---------------------------------------------------------------- properties
\* the channel has had a Client constructed for it by an identify
identified(c) == \E sid \in 1..Len(heap) : heap[sid].socket = c

\* the channel's Client is the one the registry holds for its identity
registered(c) ==
    /\ chan[c].tagged
    /\ clients[chan[c].id] # 0
    /\ heap[clients[chan[c].id]].socket = c

subscribed(sid) == {g \in Guilds : Count(heap[sid].subs, g) > 0}

Identify == Msg("identify", NoGuild, FALSE, NoID)
Undecodable == Msg("bad", NoGuild, FALSE, NoID)
Dispatches == {m \in Msgs : m.kind \notin {"bad", "identify"}}

\* C1: for every identity at most one open channel holds an established
\* session, and when an identify succeeds on a channel for identity X every
\* other channel that identified as X earlier is no longer open.
C1_OneLiveSession ==
    /\ [](\A c, d \in Chans :
            (registered(c) /\ registered(d) /\ chan[c].id = chan[d].id
               /\ chan[c].state = "OPEN" /\ chan[d].state = "OPEN") => c = d)
    /\ [][\A c \in Chans :
            (event' = Ev("message", c) /\ Len(heap') = Len(heap) + 1)
            => \A d \in Chans \ {c} :
                 (identified(d) /\ chan[d].id = chan[c].id) => chan'[d].state # "OPEN"]_vars

\* C2: a connection for X admitted while X's registered channel is open closes
\* that channel with SESSION_EXPIRED first, then sends HELLO on the new channel,
\* and leaves exactly one session for X in the registry.
C2_TakeoverOrder ==
    [][\A c \in Chans, id \in Identities, auth \in Auths :
         (/\ event' = Ev("connection", c)
          /\ handleConnection(c, id, FALSE, auth)
          /\ Admission(id, FALSE, auth) = NoCode
          /\ clients[id] # 0
          /\ chan[heap[clients[id]].socket].state = "OPEN")
         => LET old == heap[clients[id]].socket
            IN /\ chan'[old].state = "CLOSING"
               /\ chan'[old].code = SESSION_EXPIRED
               /\ effects' = <<Fx("close", old, SESSION_EXPIRED), Fx("send", c, HELLO)>>
               /\ chan'[c].sent = <<HELLO>>
               /\ Cardinality({sid \in 1..Len(heap') : clients'[id] = sid}) = 1]_vars

C2_Witness ==
    /\ event.kind = "connection"
    /\ Len(effects) = 2
    /\ effects[1].op = "close" /\ effects[1].arg = SESSION_EXPIRED
    /\ effects[2] = Fx("send", event.ch, HELLO)
    /\ chan[effects[1].ch].code = SESSION_EXPIRED
    /\ registered(effects[1].ch)

\* C3: the close handler invokes kill exactly once for every subscription of
\* the session registered under the channel's identity, and removes the
\* identity from the registry, whether or not a kill throws.
C3_CloseKillsEachOnce ==
    [][\A c \in Chans, failing \in SUBSET Guilds :
         (onClose(c, failing) /\ clients[chan[c].id] # 0)
         => LET sid == clients[chan[c].id]
            IN /\ \A g \in subscribed(sid) : heap'[sid].killed[g] = heap[sid].killed[g] + 1
               /\ clients'[chan[c].id] = 0]_vars

\* C4: in the close handler a kill that throws does not stop the teardown:
\* kill is still attempted for every other subscription of the session.
C4_KillFailureIsolated ==
    [][\A c \in Chans, failing \in SUBSET Guilds :
         (onClose(c, failing) /\ clients[chan[c].id] # 0)
         => \A g \in subscribed(clients[chan[c].id]) :
              \E i \in 1..Len(effects') : effects'[i] = Fx("kill", clients[chan[c].id], g)]_vars

\* C5: once the server has been shut down and every close event has been
\* delivered, kill has been invoked for every subscription of every session.
C5_ShutdownKillsAll ==
    (~listening /\ \A c \in Chans : chan[c].state \in {"NONE", "CLOSED"})
    => \A sid \in 1..Len(heap) : \A g \in subscribed(sid) : heap[sid].killed[g] >= 1

\* C6: close() closes every channel that is open with SERVER_CLOSED and leaves
\* the registry empty.
C6_ShutdownClosesAll ==
    [][close
       => /\ \A c \in Chans : chan[c].state = "OPEN"
               => chan'[c].state = "CLOSING" /\ chan'[c].code = SERVER_CLOSED
          /\ \A x \in Identities : clients'[x] = 0]_vars

C6_Witness ==
    /\ event.kind = "shutdown"
    /\ \E c, d \in Chans :
         /\ c # d
         /\ chan[c].code = SERVER_CLOSED /\ chan[d].code = SERVER_CLOSED
         /\ identified(c)
         /\ effects = <<Fx("close", c, SERVER_CLOSED), Fx("close", d, SERVER_CLOSED)>>
    /\ \A x \in Identities : clients[x] = 0

\* C7: an identify on an open channel that already identified closes it with
\* ALREADY_CONNECTED, sends no second READY and leaves registry and sessions as
\* they were.
C7_SecondIdentifyRejected ==
    [][\A c \in Chans :
         (handleWSMessage(c, Identify) /\ identified(c) /\ chan[c].state = "OPEN")
         => /\ chan'[c].code = ALREADY_CONNECTED
            /\ chan'[c].sent = chan[c].sent
            /\ clients' = clients
            /\ heap' = heap]_vars

\* C8: a decodable non-identify message on an open channel that has not itself
\* identified closes the channel with NOT_IDENTIFIED and reaches no adapter.
C8_DispatchBeforeIdentify ==
    [][\A c \in Chans, m \in Dispatches :
         (handleWSMessage(c, m) /\ ~identified(c) /\ chan[c].state = "OPEN")
         => /\ chan'[c].code = NOT_IDENTIFIED
            /\ effects' = <<Fx("close", c, NOT_IDENTIFIED)>>]_vars

\* C9: an undecodable payload closes the channel with DECODE_ERROR without
\* identifying or calling an adapter, and a session another channel registered
\* under the same identity survives the handling of that channel's close.
C9_DecodeErrorNoSideEffect ==
    [][/\ \A c \in Chans :
            (handleWSMessage(c, Undecodable) /\ chan[c].state = "OPEN")
            => /\ chan'[c].code = DECODE_ERROR
               /\ effects' = <<Fx("close", c, DECODE_ERROR)>>
               /\ clients' = clients /\ heap' = heap
       /\ \A c \in Chans, failing \in SUBSET Guilds :
            (onClose(c, failing) /\ chan[c].code = DECODE_ERROR)
            => \A x \in Identities :
                 (clients[x] # 0 /\ heap[clients[x]].socket # c) => clients'[x] = clients[x]]_vars

\* C10 as stated: every connection attempt without a client identity is closed
\* with NO_CLIENT_ID and creates no registry entry.
C10_AsStated ==
    [][\A c \in Chans, blocked \in BOOLEAN, auth \in Auths :
         handleConnection(c, NoID, blocked, auth)
         => /\ chan'[c].code = NO_CLIENT_ID
            /\ clients' = clients /\ heap' = heap]_vars

\* C10 amended: a connection attempt from an address that is not blocked and
\* without a client identity is closed with NO_CLIENT_ID, gets no listeners and
\* creates no registry entry; no later message or close event of that channel
\* changes the registry.
C10_NoClientId ==
    [][/\ \A c \in Chans, auth \in Auths :
            (event' = Ev("connection", c) /\ handleConnection(c, NoID, FALSE, auth))
            => /\ chan'[c].state = "CLOSING" /\ chan'[c].code = NO_CLIENT_ID
               /\ ~chan'[c].tagged
               /\ clients' = clients /\ heap' = heap
       /\ \A c \in Chans :
            (chan[c].code = NO_CLIENT_ID /\ event' \in {Ev("message", c), Ev("close", c)})
            => clients' = clients /\ heap' = heap]_vars

C10_Witness ==
    /\ \E c \in Chans :
         /\ chan[c].code = NO_CLIENT_ID /\ chan[c].state = "CLOSED"
         /\ event = Ev("close", c)
    /\ \E x \in Identities : clients[x] # 0

\* C11: a connection from an address that is not blocked, with a client
\* identity, is closed with NO_AUTH exactly when a password is configured and
\* the authorization differs from it; without a password it is admitted.
C11_AuthCheck ==
    [][\A c \in Chans, id \in Identities, auth \in Auths :
         (event' = Ev("connection", c) /\ handleConnection(c, id, FALSE, auth))
         => /\ (chan'[c].code = NO_AUTH) <=> (password # "" /\ auth # password)
            /\ (chan'[c].code = NO_AUTH) => (chan'[c].state = "CLOSING" /\ ~chan'[c].tagged)
            /\ (password = "" \/ auth = password)
                 => (chan'[c].state = "OPEN" /\ chan'[c].tagged /\ chan'[c].code = NoCode)]_vars

C11_Witness ==
    /\ password # ""
    /\ \E c, d \in Chans :
         /\ event = Ev("connection", c)
         /\ chan[c].code = NO_AUTH /\ chan[c].state = "CLOSING"
         /\ chan[d].tagged /\ chan[d].state = "OPEN"

\* the adapter calls among the calls of a handler
adapterCalls(fx) == SelectSeq(fx, LAMBDA e : e.op \in {"onVoiceStateUpdate", "onVoiceServerUpdate"})

VoiceStates == {m \in Msgs : m.kind = "vstate"}

\* C12: a voice state update on an open channel that identified reaches no
\* adapter when its user_id is not the channel's identity or its guild_id or
\* session_id is missing; otherwise onVoiceStateUpdate is called on the adapter
\* of its guild in the identity's session and on no other, and on none when
\* the session has no adapter for that guild.
C12_VoiceStateRouting ==
    [][\A c \in Chans :
         (event' = Ev("message", c) /\ identified(c) /\ chan[c].state = "OPEN")
         => \A m \in VoiceStates :
              handleWSMessage(c, m)
              => LET sid == clients[chan[c].id]
                     calls == adapterCalls(effects')
                 IN /\ (m.user # chan[c].id \/ m.guild = NoGuild \/ ~m.sess) => calls = <<>>
                    /\ (m.user = chan[c].id /\ m.guild # NoGuild /\ m.sess)
                         => IF sid # 0 /\ m.guild \in subscribed(sid)
                            THEN calls = <<Fx("onVoiceStateUpdate", sid, m.guild)>>
                            ELSE calls = <<>>]_vars

C12_Witness ==
    /\ event.kind = "message"
    /\ identified(event.ch)
    /\ \E g \in Guilds :
         /\ effects = <<Fx("onVoiceStateUpdate", clients[chan[event.ch].id], g)>>
         /\ subscribed(clients[chan[event.ch].id]) = Guilds

\* C13: handling the close of a channel neither kills subscriptions of nor
\* unregisters a session that is bound to a different channel.
C13_CloseOnlyOwnSession ==
    [][\A c \in Chans :
         event' = Ev("close", c)
         => \A sid \in 1..Len(heap) :
              heap[sid].socket # c
              => /\ heap'[sid] = heap[sid]
                 /\ \A x \in Identities : clients[x] = sid => clients'[x] = sid]_vars

\* the Clients constructed for a channel
sessionsOf(c) == {sid \in 1..Len(heap) : heap[sid].socket = c}

\* C14: on one channel identification succeeds at most once: it never happens
\* that two Clients were registered for it and two READY were sent on it.
C14_IdentifyOncePerChannel ==
    \A c \in Chans : Cardinality(sessionsOf(c)) <= 1 \/ Count(chan[c].sent, READY) <= 1

\* C15: an identify on an open channel, while the registry holds the Client of
\* another channel under the same identity, closes the channel with
\* ALREADY_CONNECTED, sends no READY and leaves registry and sessions unchanged.
C15_IdentifyDuringTakeover ==
    [][\A c \in Chans :
         (/\ event' = Ev("message", c)
          /\ chan[c].state = "OPEN"
          /\ clients[chan[c].id] # 0
          /\ heap[clients[chan[c].id]].socket # c
          /\ handleWSMessage(c, Identify))
         => /\ chan'[c].state = "CLOSING" /\ chan'[c].code = ALREADY_CONNECTED
            /\ chan'[c].sent = chan[c].sent
            /\ effects' = <<Fx("close", c, ALREADY_CONNECTED)>>
            /\ clients' = clients /\ heap' = heap]_vars

C15_Witness ==
    /\ event.kind = "message"
    /\ effects = <<Fx("close", event.ch, ALREADY_CONNECTED)>>
    /\ chan[event.ch].code = ALREADY_CONNECTED
    /\ ~identified(event.ch)
    /\ \E x \in Identities :
         /\ clients[x] # 0
         /\ chan[event.ch].id = x
         /\ chan[heap[clients[x]].socket].code = SESSION_EXPIRED
         /\ chan[heap[clients[x]].socket].state = "CLOSING"

\* C16: a connection rejected at admission is closed with the code of the
\* first failing check, in the order blocked address, missing identity, bad
\* credential, and with nothing else: no HELLO, no takeover close, no listener;
\* its later messages and its close event change nothing and call nothing.
C16_RejectionOrder ==
    [][/\ \A c \in Chans, id \in Identities \cup {NoID}, blocked \in BOOLEAN, auth \in Auths :
            (/\ event' = Ev("connection", c)
             /\ blocked \/ id = NoID \/ (password # "" /\ auth # password)
             /\ handleConnection(c, id, blocked, auth))
            => LET code == IF blocked THEN NOT_ALLOWED
                           ELSE IF id = NoID THEN NO_CLIENT_ID ELSE NO_AUTH
               IN /\ chan'[c] = [NewChan EXCEPT !.state = "CLOSING", !.code = code]
                  /\ effects' = <<Fx("close", c, code)>>
                  /\ \A d \in Chans \ {c} : chan'[d] = chan[d]
                  /\ clients' = clients /\ heap' = heap
       /\ \A c \in Chans :
            (/\ chan[c].state # "NONE" /\ ~chan[c].tagged
             /\ event' \in {Ev("message", c), Ev("close", c)})
            => /\ clients' = clients /\ heap' = heap
               /\ effects' = <<>>
               /\ chan'[c].code = chan[c].code /\ chan'[c].sent = <<>>
               /\ \A d \in Chans \ {c} : chan'[d] = chan[d]]_vars

C16_Witness ==
    \E c, d \in Chans :
      /\ event = Ev("message", c)
      /\ ~chan[c].tagged /\ chan[c].code = NOT_ALLOWED
      /\ registered(d) /\ chan[d].state = "OPEN"

\* C17: HELLO is the first frame of every admitted channel and is sent once, a
\* rejected channel is sent nothing, and a READY is only ever appended, after
\* the HELLO, by the handling of an identify received on that channel.
C17_HandshakeOrder ==
    /\ [](\A c \in Chans :
            IF chan[c].tagged
            THEN chan[c].sent # <<>> /\ Head(chan[c].sent) = HELLO /\ Count(chan[c].sent, HELLO) = 1
            ELSE chan[c].sent = <<>>)
    /\ [][\A c \in Chans :
            chan'[c].sent # chan[c].sent
            => \/ /\ event' = Ev("connection", c)
                  /\ chan[c].sent = <<>> /\ chan'[c].sent = <<HELLO>>
               \/ /\ event' = Ev("message", c)
                  /\ chan'[c].sent = Append(chan[c].sent, READY)
                  /\ Head(chan[c].sent) = HELLO
                  /\ handleWSMessage(c, Identify)]_vars

C17_Witness ==
    \E c \in Chans : event = Ev("message", c) /\ chan[c].sent = <<HELLO, READY>>

\* the dispatch messages that reach no adapter of the Client at heap[sid]
\* (of no Client when sid = 0) for a channel of identity id
isMiss(sid, id, m) ==
    \/ m.kind = "other"
    \/ m.kind = "vstate" /\ (m.guild = NoGuild \/ ~m.sess \/ m.user # id)
    \/ m.kind \in {"vstate", "vserver"} /\ (sid = 0 \/ m.guild \notin subscribed(sid))

\* C18: on an open channel that identified, a routing miss leaves the channel
\* open, registry and sessions unchanged, and calls no adapter.
C18_RoutingMissNoEffect ==
    [][\A c \in Chans :
         (event' = Ev("message", c) /\ identified(c) /\ chan[c].state = "OPEN")
         => \A m \in Dispatches :
              (isMiss(clients[chan[c].id], chan[c].id, m) /\ handleWSMessage(c, m))
              => /\ chan' = chan
                 /\ clients' = clients /\ heap' = heap
                 /\ adapterCalls(effects') = <<>>]_vars

\* the heap index the registry holds for the identity of channel c, 0 when none
registryOf(c) == IF chan[c].tagged THEN clients[chan[c].id] ELSE 0

\* C19: under fair delivery of close events, whenever a channel that is
\* closing holds the registered session of its identity, eventually the
\* registry no longer maps that identity to that session.
C19_ClosedSessionUnregistered ==
    \A c \in Chans, sid \in 1..MaxEvents :
      (/\ chan[c].state = "CLOSING"
       /\ sid <= Len(heap) /\ heap[sid].socket = c
       /\ registryOf(c) = sid)
      ~> (registryOf(c) # sid)

C19_Witness ==
    \E c \in Chans :
      /\ event = Ev("close", c)
      /\ identified(c) /\ chan[c].state = "CLOSED"
      /\ chan[c].code \in {PEER, SESSION_EXPIRED, SERVER_CLOSED, DECODE_ERROR}
      /\ clients[chan[c].id] = 0
      /\ effects # <<>>

\* C20: once the close event of a channel has been handled, no registry entry
\* refers to a Client bound to that channel.
C20_NoStaleSession ==
    \A c \in Chans :
      chan[c].state = "CLOSED"
      => \A x \in Identities : clients[x] # 0 => heap[clients[x]].socket # c

C20_Witness ==
    \E c, d \in Chans :
      /\ c # d
      /\ chan[c].state = "CLOSED" /\ identified(c)
      /\ registered(d) /\ chan[d].id = chan[c].id

====
